---- MODULE Spec2Model ----
(***************************************************************************)
(* Session manager of autoglue-ui: the axios client of src/lib/api.ts      *)
(* (request interceptor, 401 response interceptor with refresh             *)
(* coordination), AuthProvider.login, the sidebar Logout button, and the    *)
(* views that select, switch and delete the active organization.           *)
(*                                                                         *)
(* Strings are sequences of symbols.  The symbols are single characters,   *)
(* except "undefined" and "Bearer ", which stand for those words.          *)
(* A value that may be missing (null from getItem, a JS undefined, a       *)
(* header that is not set) is a sequence of length at most one: <<>> when  *)
(* missing, <<s>> when it is the string s.                                 *)
(***************************************************************************)
EXTENDS Integers, Sequences, FiniteSets

\* ------------------------------------------------------------------ bounds
MaxReq == 3          \* requests (API calls and logins) issued by callers

\* ----------------------------------------------------------------- strings
Q == "\""            \* the double quote character
B == "\\"            \* the backslash character

None == <<>>
Some(x) == <<x>>

undefinedWord == <<"undefined">>     \* the string "undefined"

\* String(v) of a JS value that is a string or undefined
StringOf(v) == IF v = None THEN undefinedWord ELSE v[1]

RECURSIVE escape(_)
\* the escaping JSON.stringify applies inside a string literal
escape(s) ==
  IF s = <<>> THEN <<>>
  ELSE (IF Head(s) \in {Q, B} THEN <<B, Head(s)>> ELSE <<Head(s)>>) \o escape(Tail(s))

\* JSON.stringify(v): a quoted literal for a string, undefined for undefined
JSONstringify(v) == IF v = None THEN None ELSE Some(<<Q>> \o escape(v[1]) \o <<Q>>)

\* s.replace(/^"|"$/g, ""): drops one leading and one trailing double quote
stripQuotes(s) ==
  LET s1 == IF s # <<>> /\ Head(s) = Q THEN Tail(s) ELSE s
  IN  IF s1 # <<>> /\ s1[Len(s1)] = Q THEN SubSeq(s1, 1, Len(s1) - 1) ELSE s1

\* `Bearer ${v}` for a JS value v
Bearer(v) == <<"Bearer ">> \o StringOf(v)

\* ------------------------------------------------------- server responses
\* bodies the login endpoint may answer with
LoginData ==
  { [access_token |-> Some(<<"a">>),       refresh_token |-> Some(<<"r">>)],
    [access_token |-> Some(<<Q, "a">>),    refresh_token |-> Some(<<"r">>)],
    [access_token |-> Some(undefinedWord), refresh_token |-> Some(<<"r">>)],
    [access_token |-> None,                refresh_token |-> Some(<<"r">>)] }

\* bodies the refresh endpoint may answer with
RefreshData ==
  { [access_token |-> Some(<<"b">>)],
    [access_token |-> Some(<<Q, "b">>)],
    [access_token |-> None] }

\* the answers of a server that issues plain tokens only
PlainLoginData == { [access_token |-> Some(<<"a">>), refresh_token |-> Some(<<"r">>)] }
PlainRefreshData == { [access_token |-> Some(<<"b">>)] }

\* statuses of a failed request other than 401; 0 is a transport error
OtherStatus == {0, 500}

\* ids of the organizations the server knows when the browser is opened
OrgIds == {<<"A">>, <<"B">>}

\* the members of the organization when the browser is opened
AllMembers ==
  << [user_id |-> "u1", role |-> "owner"],
     [user_id |-> "u2", role |-> "member"],
     [user_id |-> "u3", role |-> "member"] >>

UserIds == {AllMembers[i].user_id : i \in 1..Len(AllMembers)}

\* the body of GET /v1/orgs/members for a set of user ids
memberList(set) == SelectSeq(AllMembers, LAMBDA m : m.user_id \in set)

\* the body of GET /v1/orgs for a set of organizations
orgList(set) == SelectSeq(<<<<"A">>, <<"B">>>>, LAMBDA o : o \in set)

\* ------------------------------------------------------------------- state
VARIABLES
  localStorage,   \* [access_token, refresh_token, active_org_id]: string or None
  isRefreshing,   \* api.ts module flag
  failedQueue,    \* api.ts module queue: sequence of queued request ids
  defaults,       \* api.defaults.headers: [Authorization: header or None]
  requests,       \* per request id: its config and its caller's promise
  nextId,         \* id of the next request a caller issues
  refreshCalls,   \* refresh calls in flight (axios.post outside the client)
  nav,            \* pending navigation: "none", "reload" or "/"
  wire,           \* output: what the last sending step put on the wire, in order
  refreshLog,     \* history: refresh calls started, in order
  serverOrgs,     \* the organizations that exist on the server
  orgs,           \* OrgSwitcher state: the list it loaded
  organizations,  \* OrgManagement state: the list it displays
  activeOrgId,    \* OrgManagement state: the id it takes for active, or None
  serverMembers,  \* the user ids of the members the server has
  members         \* MemberManagement state: the list it displays

\* the state of the member view and of the server behind it
memberState == <<serverMembers, members>>

\* the state of the organization views and of the server behind them
orgState == <<serverOrgs, orgs, organizations, activeOrgId, memberState>>

vars == <<localStorage, isRefreshing, failedQueue, defaults, requests, nextId,
          refreshCalls, nav, wire, refreshLog, serverOrgs, orgs, organizations,
          activeOrgId, serverMembers, members>>

Ids == 1..MaxReq

NoHeaders == [h \in {"Authorization", "X-Org-ID"} |-> None]

\* what a handler of OrgManagement sees of the render it belongs to
NoRender == [activeOrgId |-> None, organizations |-> <<>>]

NewRequest ==
  [pc |-> "new", kind |-> "api", _retry |-> FALSE, headers |-> NoHeaders,
   attempts |-> 0, via |-> "none", window |-> 0, stale |-> FALSE,
   outcome |-> [state |-> "pending"], org |-> None, render |-> NoRender,
   userId |-> None]

getItem(ls, key) == ls[key]

\* a setItem that drops every other key
setItemAlone(ls, key, v) == [k \in DOMAIN ls |-> IF k = key THEN Some(StringOf(v)) ELSE None]

setItem(ls, key, v) == [ls EXCEPT ![key] = Some(StringOf(v))]
removeItem(ls, key) == [ls EXCEPT ![key] = None]
clear(ls) == [k \in DOMAIN ls |-> None]

\* what AuthProvider.login writes for the body of a 2xx answer
storeLogin(ls, data) ==
  setItem(setItem(ls, "access_token", JSONstringify(data.access_token)),
          "refresh_token", JSONstringify(data.refresh_token))

emptyStorage == [access_token |-> None, refresh_token |-> None, active_org_id |-> None]

\* The script starts on a page load.  localStorage outlives the page: it is
\* empty, or holds what a login of an earlier visit stored and the
\* organization an earlier visit made active.
InitFor(loginData, activeOrgs, server) ==
  /\ localStorage \in
       {emptyStorage} \cup {storeLogin(emptyStorage, d) : d \in loginData}
          \cup {setItem(storeLogin(emptyStorage, d), "active_org_id", Some(o)) :
                   d \in loginData, o \in activeOrgs}
  /\ isRefreshing = FALSE
  /\ failedQueue = <<>>
  /\ defaults = NoHeaders
  /\ requests = [r \in Ids |-> NewRequest]
  /\ nextId = 1
  /\ refreshCalls = {}
  /\ nav = "none"
  /\ wire = <<>>
  /\ refreshLog = <<>>
  /\ serverOrgs = server
  /\ orgs = orgList(server)
  /\ organizations = orgList(server)
  /\ activeOrgId = None
  /\ serverMembers = UserIds
  /\ members = memberList(UserIds)

\* the same with every organization of OrgIds on the server
InitWith(loginData, activeOrgs) == InitFor(loginData, activeOrgs, OrgIds)

\* a browser that holds nothing of an earlier visit
Init == InitWith({}, {})

\* ------------------------------------------------------ request interceptor
\* the token the interceptor reads: getItem("access_token")?.replace(...)
storedToken(ls) ==
  IF getItem(ls, "access_token") = None THEN None
  ELSE Some(stripQuotes(getItem(ls, "access_token")[1]))

\* token && token !== "undefined"
usable(token) == token # None /\ token[1] # <<>> /\ token[1] # undefinedWord

\* the id the interceptor reads: getItem("active_org_id")?.replace(...)
storedOrgId(ls) ==
  IF getItem(ls, "active_org_id") = None THEN None
  ELSE Some(stripQuotes(getItem(ls, "active_org_id")[1]))

\* if (orgId)
present(orgId) == orgId # None /\ orgId[1] # <<>>

RequestInterceptor(headers, ls) ==
  LET withToken == IF usable(storedToken(ls))
                   THEN [headers EXCEPT !.Authorization = Some(Bearer(storedToken(ls)))]
                   ELSE headers
  IN  IF present(storedOrgId(ls))
      THEN [withToken EXCEPT !["X-Org-ID"] = storedOrgId(ls)]
      ELSE withToken

\* axios merges the instance defaults under the headers of the call
mergeConfig(dflt, headers) ==
  [h \in DOMAIN headers |-> IF headers[h] # None THEN headers[h] ELSE dflt[h]]

\* api(config): the headers the request leaves the client with
apiSend(dflt, headers, ls) == RequestInterceptor(mergeConfig(dflt, headers), ls)

\* ------------------------------------------------------------ callers
\* the record of request r leaving the client for the n-th time
Sent(r, n, headers) == [req |-> r, attempt |-> n, headers |-> headers]

\* a caller starts a request of the given kind through the client
Issue(kind) ==
  /\ nav = "none"
  /\ nextId <= MaxReq
  /\ LET h == apiSend(defaults, NoHeaders, localStorage)
     IN  /\ requests' = [requests EXCEPT ![nextId] =
                           [NewRequest EXCEPT !.pc = "wire", !.kind = kind,
                                              !.headers = h, !.attempts = 1]]
         /\ wire' = <<Sent(nextId, 1, h)>>
  /\ nextId' = nextId + 1
  /\ UNCHANGED <<localStorage, isRefreshing, failedQueue, defaults,
                 refreshCalls, nav, refreshLog, orgState>>

\* a view calls api.get / api.post / ...
IssueRequest == Issue("api")

\* AuthProvider.login up to its await: api.post("/v1/authentication/login")
login == Issue("login")

\* the promise of a request settles; its config is not used again
settle(req, outcome) == [NewRequest EXCEPT !.pc = "done", !.outcome = outcome]

fulfilled == [state |-> "fulfilled"]
rejected(error) == [state |-> "rejected", error |-> error]
\* the error object of the n-th response of request r
responseError(r, n) == [from |-> "response", req |-> r, attempt |-> n]
refreshError(c) == [from |-> "refresh", call |-> c]

\* a 2xx response of an API call: (response) => response
RespondOk(r) ==
  /\ requests[r].pc = "wire"
  /\ requests[r].kind = "api"
  /\ requests' = [requests EXCEPT ![r] = settle(@, fulfilled)]
  /\ UNCHANGED <<localStorage, isRefreshing, failedQueue, defaults, nextId,
                 refreshCalls, nav, wire, refreshLog, orgState>>

\* a 2xx response of the login call: login stores both tokens
loginOk(r, data) ==
  /\ requests[r].pc = "wire"
  /\ requests[r].kind = "login"
  /\ requests' = [requests EXCEPT ![r] = settle(@, fulfilled)]
  /\ localStorage' = storeLogin(localStorage, data)
  /\ UNCHANGED <<isRefreshing, failedQueue, defaults, nextId,
                 refreshCalls, nav, wire, refreshLog, orgState>>

\* ---------------------------------------------------- response interceptor
\* refresh calls that have settled or were dropped so far
settledCalls == Cardinality({i \in 1..Len(refreshLog) : refreshLog[i].state # "inflight"})

\* the other requests awaiting their first response that left the client
\* with the same Authorization header as r
sameTokenOnWire(r) ==
  {o \in Ids \ {r} : /\ requests[o].pc = "wire" /\ requests[o].attempts = 1
                      /\ requests[r].attempts = 1
                      /\ requests[o].headers.Authorization # None
                      /\ requests[o].headers = requests[r].headers}

\* history: a refresh call starts for the token these requests were sent with
markStale(reqs, set) ==
  [o \in Ids |-> IF o \in set THEN [reqs[o] EXCEPT !.stale = TRUE] ELSE reqs[o]]

\* an interceptor that ignores the _retry mark
notRetriedIgnored(req) == TRUE

\* !originalRequest._retry
notRetried(req) == ~req._retry

\* a guard that does not look for a refresh token
hasRefreshTokenAlways(ls) == TRUE

\* localStorage.getItem("refresh_token") as a condition
hasRefreshToken(ls) ==
  getItem(ls, "refresh_token") # None /\ getItem(ls, "refresh_token")[1] # <<>>

\* a guard that takes every failure for a 401
shouldRefreshAnyStatus(status, req, ls) == notRetried(req) /\ hasRefreshToken(ls)

\* the condition of the if: status 401, not retried, refresh token stored
shouldRefresh(status, req, ls) == status = 401 /\ notRetried(req) /\ hasRefreshToken(ls)

\* a coordinator that queues every 401 it accepts
mustQueueAlways(flag) == TRUE

\* a coordinator that never queues
mustQueueNever(flag) == FALSE

\* a coordinator that queues while idle and refreshes while refreshing
mustQueueInverted(flag) == ~flag

\* if (isRefreshing): queue behind the refresh in flight
mustQueue(flag) == flag

\* a refresh call posted through the intercepted client
apiPost(dflt, ls, body) == [headers |-> apiSend(dflt, NoHeaders, ls), body |-> body]

\* axios.post(url, body, {headers: Content-Type}): the global axios, which
\* has no interceptors and none of the defaults of api
axiosPost(dflt, ls, body) == [headers |-> NoHeaders, body |-> body]

\* the error handler, for the response status of request r
ResponseError(r, status) ==
  /\ requests[r].pc = "wire"
  /\ IF shouldRefresh(status, requests[r], localStorage)
     THEN IF mustQueue(isRefreshing)
          THEN /\ failedQueue' = Append(failedQueue, r)
               /\ requests' = [requests EXCEPT ![r] =
                     [@ EXCEPT !._retry = TRUE, !.pc = "queued", !.via = "queued",
                               !.window = settledCalls]]
               /\ UNCHANGED <<isRefreshing, refreshCalls, refreshLog>>
          ELSE /\ isRefreshing' = TRUE
               /\ requests' = markStale([requests EXCEPT ![r] =
                     [@ EXCEPT !._retry = TRUE, !.pc = "refreshing", !.via = "trigger",
                               !.window = settledCalls]], sameTokenOnWire(r))
               /\ LET call == axiosPost(defaults, localStorage,
                                  [refresh_token |-> getItem(localStorage, "refresh_token")])
                  IN  refreshCalls' = refreshCalls \cup
                        {[id |-> Len(refreshLog) + 1, trigger |-> r,
                          headers |-> call.headers, body |-> call.body]}
               /\ refreshLog' = Append(refreshLog,
                     [trigger |-> r, startedAfter |-> settledCalls, state |-> "inflight",
                      token |-> None])
               /\ UNCHANGED failedQueue
     ELSE /\ requests' = [requests EXCEPT ![r] =
                 settle(@, rejected(responseError(r, requests[r].attempts)))]
          /\ UNCHANGED <<isRefreshing, failedQueue, refreshCalls, refreshLog>>
  /\ UNCHANGED <<localStorage, defaults, nextId, nav, wire, orgState>>

Respond401(r) == ResponseError(r, 401)

RespondOther(r) == \E status \in OtherStatus : ResponseError(r, status)

\* a processQueue that visits the queue last to first
forEachReversed(queue) == [i \in 1..Len(queue) |-> queue[Len(queue) + 1 - i]]

\* the order in which processQueue visits failedQueue: forEach
forEachOrder(queue) == queue

logSettle(c, state, token) ==
  [refreshLog EXCEPT ![c.id].state = state, ![c.id].token = token]

\* the refresh call answers 2xx: lines 81-88, then finally
RefreshSuccess(c, data) ==
  /\ c \in refreshCalls
  /\ LET newAccessToken == data.access_token
         ls == setItem(localStorage, "access_token", newAccessToken)
         dflt == [defaults EXCEPT !.Authorization = Some(Bearer(newAccessToken))]
         order == forEachOrder(failedQueue) \o <<c.trigger>>
         replay(r) == apiSend(dflt,
                        [requests[r].headers EXCEPT !.Authorization = Some(Bearer(newAccessToken))],
                        ls)
         nth(r) == requests[r].attempts + 1
     IN  /\ localStorage' = ls
         /\ defaults' = dflt
         /\ requests' = [r \in Ids |->
               IF \E i \in 1..Len(order) : order[i] = r
               THEN [requests[r] EXCEPT !.pc = "wire", !.headers = replay(r),
                                        !.attempts = nth(r)]
               ELSE requests[r]]
         /\ wire' = [i \in 1..Len(order) |-> Sent(order[i], nth(order[i]), replay(order[i]))]
  /\ failedQueue' = <<>>
  /\ isRefreshing' = FALSE
  /\ refreshCalls' = refreshCalls \ {c}
  /\ refreshLog' = logSettle(c, "success", data.access_token)
  /\ UNCHANGED <<nextId, nav, orgState>>

\* a catch block that forgets the refresh token
teardownAccessOnly(ls) == removeItem(ls, "access_token")

\* the removals of the catch block
teardown(ls) == removeItem(removeItem(ls, "access_token"), "refresh_token")

\* the refresh call fails: the catch block, then finally
RefreshFailure(c) ==
  /\ c \in refreshCalls
  /\ LET out == forEachOrder(failedQueue) \o <<c.trigger>>
     IN  requests' = [r \in Ids |->
               IF \E i \in 1..Len(out) : out[i] = r
               THEN settle(requests[r], rejected(refreshError(c.id)))
               ELSE requests[r]]
  /\ failedQueue' = <<>>
  /\ localStorage' = teardown(localStorage)
  /\ nav' = "/"
  /\ isRefreshing' = FALSE
  /\ refreshCalls' = refreshCalls \ {c}
  /\ refreshLog' = logSettle(c, "failure", None)
  /\ UNCHANGED <<defaults, nextId, wire, orgState>>

\* ------------------------------------------------------------ navigation
\* the Logout button: localStorage.clear(); window.location.reload()
Logout ==
  /\ nav = "none"
  /\ localStorage' = clear(localStorage)
  /\ nav' = "reload"
  /\ UNCHANGED <<isRefreshing, failedQueue, defaults, requests, nextId,
                 refreshCalls, wire, refreshLog, orgState>>

\* the pending navigation commits: the document is replaced, the module
\* state of api.ts starts afresh and every pending call is abandoned
PageLoad ==
  /\ nav # "none"
  /\ nav' = "none"
  /\ isRefreshing' = FALSE
  /\ failedQueue' = <<>>
  /\ defaults' = NoHeaders
  /\ refreshCalls' = {}
  /\ requests' = [r \in Ids |->
        IF requests[r].pc \in {"wire", "queued", "refreshing"}
        THEN [NewRequest EXCEPT !.pc = "aborted"]
        ELSE requests[r]]
  /\ refreshLog' = [i \in 1..Len(refreshLog) |->
        IF refreshLog[i].state = "inflight"
        THEN [refreshLog[i] EXCEPT !.state = "dropped"]
        ELSE refreshLog[i]]
  /\ orgs' = orgList(serverOrgs)
  /\ organizations' = orgList(serverOrgs)
  /\ activeOrgId' = None
  /\ members' = memberList(serverMembers)
  /\ UNCHANGED <<localStorage, nextId, wire, serverOrgs, serverMembers>>

\* ---------------------------------------------------------- organizations
\* the ids of a list of organizations
idsOf(list) == {list[i] : i \in 1..Len(list)}

\* OrgSwitcher.switchOrg: setItem, then window.location.reload()
switchOrg(orgId) ==
  /\ nav = "none"
  /\ orgId \in idsOf(orgs)
  /\ localStorage' = setItem(localStorage, "active_org_id", Some(orgId))
  /\ nav' = "reload"
  /\ UNCHANGED <<isRefreshing, failedQueue, defaults, requests, nextId,
                 refreshCalls, wire, refreshLog, orgState>>

\* OrgManagement.handleSelectOrg: setItem and setActiveOrgId, no reload
handleSelectOrg(org) ==
  /\ nav = "none"
  /\ org \in idsOf(organizations)
  /\ localStorage' = setItem(localStorage, "active_org_id", Some(org))
  /\ activeOrgId' = Some(org)
  /\ UNCHANGED <<isRefreshing, failedQueue, defaults, requests, nextId,
                 refreshCalls, nav, wire, refreshLog, serverOrgs, orgs, organizations,
                 memberState>>

\* OrgManagement.handleDeleteOrg up to its await: api.delete(`/v1/orgs/${org.id}`);
\* the handler keeps the activeOrgId and organizations of its render
handleDeleteOrg(org) ==
  /\ nav = "none"
  /\ nextId <= MaxReq
  /\ org \in idsOf(organizations)
  /\ LET h == apiSend(defaults, NoHeaders, localStorage)
     IN  /\ requests' = [requests EXCEPT ![nextId] =
                           [NewRequest EXCEPT !.pc = "wire", !.kind = "deleteOrg",
                                              !.headers = h, !.attempts = 1,
                                              !.org = Some(org),
                                              !.render = [activeOrgId |-> activeOrgId,
                                                          organizations |-> organizations]]]
         /\ wire' = <<Sent(nextId, 1, h)>>
  /\ nextId' = nextId + 1
  /\ UNCHANGED <<localStorage, isRefreshing, failedQueue, defaults,
                 refreshCalls, nav, refreshLog, orgState>>

\* remaining[0]?.id ?? null
firstId(list) == IF list = <<>> THEN None ELSE Some(list[1])

\* a 2xx response of the delete call: the rest of the try block
deleteOrgOk(r) ==
  /\ requests[r].pc = "wire"
  /\ requests[r].kind = "deleteOrg"
  /\ LET org == requests[r].org[1]
         seen == requests[r].render
         remaining == SelectSeq(seen.organizations, LAMBDA o : o # org)
         next == firstId(remaining)
     IN  /\ serverOrgs' = serverOrgs \ {org}
         \* prev.filter((org) => org.id !== org.id): the parameter shadows org
         /\ organizations' = SelectSeq(organizations, LAMBDA o : o # o)
         /\ IF seen.activeOrgId = Some(org)
            THEN /\ localStorage' = IF present(next)
                                    THEN setItem(localStorage, "active_org_id", next)
                                    ELSE removeItem(localStorage, "active_org_id")
                 /\ activeOrgId' = next
            ELSE UNCHANGED <<localStorage, activeOrgId>>
  /\ requests' = [requests EXCEPT ![r] = settle(@, fulfilled)]
  /\ UNCHANGED <<isRefreshing, failedQueue, defaults, nextId,
                 refreshCalls, nav, wire, refreshLog, orgs, memberState>>

\* ---------------------------------------------------------------- members
\* MemberManagement.removeMember up to the response:
\* api.delete(`/v1/orgs/members/${userId}`)
removeMember(userId) ==
  /\ nav = "none"
  /\ nextId <= MaxReq
  /\ \E i \in 1..Len(members) : members[i].user_id = userId
  /\ LET h == apiSend(defaults, NoHeaders, localStorage)
     IN  /\ requests' = [requests EXCEPT ![nextId] =
                           [NewRequest EXCEPT !.pc = "wire", !.kind = "removeMember",
                                              !.headers = h, !.attempts = 1,
                                              !.userId = Some(userId)]]
         /\ wire' = <<Sent(nextId, 1, h)>>
  /\ nextId' = nextId + 1
  /\ UNCHANGED <<localStorage, isRefreshing, failedQueue, defaults,
                 refreshCalls, nav, refreshLog, orgState>>

\* a filter that compares the user id of each member with itself
keepMemberSelf(m, userId) == m.user_id # m.user_id

\* (m) => m.user_id !== userId
keepMember(m, userId) == m.user_id # userId

\* a 2xx response of the delete call: the then callback
removeMemberOk(r) ==
  /\ requests[r].pc = "wire"
  /\ requests[r].kind = "removeMember"
  /\ serverMembers' = serverMembers \ {requests[r].userId[1]}
  /\ members' = SelectSeq(members, LAMBDA m : keepMember(m, requests[r].userId[1]))
  /\ requests' = [requests EXCEPT ![r] = settle(@, fulfilled)]
  /\ UNCHANGED <<localStorage, isRefreshing, failedQueue, defaults, nextId,
                 refreshCalls, nav, wire, refreshLog, serverOrgs, orgs, organizations,
                 activeOrgId>>

Next ==
  \/ IssueRequest
  \/ login
  \/ \E r \in Ids : RespondOk(r)
  \/ \E r \in Ids, data \in LoginData : loginOk(r, data)
  \/ \E r \in Ids : Respond401(r)
  \/ \E r \in Ids : RespondOther(r)
  \/ \E c \in refreshCalls, data \in RefreshData : RefreshSuccess(c, data)
  \/ \E c \in refreshCalls : RefreshFailure(c)
  \/ Logout
  \/ PageLoad

Spec == Init /\ [][Next]_vars

\* the same client against a server whose tokens are plain strings, in a
\* browser that may hold the tokens of an earlier visit
NextPlain ==
  \/ IssueRequest
  \/ login
  \/ \E r \in Ids : RespondOk(r)
  \/ \E r \in Ids, data \in PlainLoginData : loginOk(r, data)
  \/ \E r \in Ids : Respond401(r)
  \/ \E r \in Ids : RespondOther(r)
  \/ \E c \in refreshCalls, data \in PlainRefreshData : RefreshSuccess(c, data)
  \/ \E c \in refreshCalls : RefreshFailure(c)
  \/ Logout
  \/ PageLoad

InitPlain == InitWith(PlainLoginData, {})

SpecPlain == InitPlain /\ [][NextPlain]_vars

\* a refresh call in flight gets its answer
RefreshSettles ==
  \E c \in refreshCalls :
     \/ \E data \in PlainRefreshData : RefreshSuccess(c, data)
     \/ RefreshFailure(c)

\* a request on the wire gets its response
ResponseArrives ==
  \E r \in Ids :
     \/ RespondOk(r)
     \/ \E data \in PlainLoginData : loginOk(r, data)
     \/ Respond401(r)
     \/ RespondOther(r)

\* the same, with a network on which every call settles
SpecSettle ==
  InitPlain /\ [][NextPlain]_vars /\ WF_vars(RefreshSettles) /\ WF_vars(ResponseArrives)

\* the same, with a refresh endpoint that answers every call (or fails it):
\* the awaited axios.post settles and its continuation runs
SpecLive == InitPlain /\ [][NextPlain]_vars /\ WF_vars(RefreshSettles)

\* the same client and server with the views that select the active
\* organization in use, in a browser that may hold the active organization
\* of an earlier visit
NextOrg ==
  \/ IssueRequest
  \/ login
  \/ \E r \in Ids : RespondOk(r)
  \/ \E r \in Ids, data \in PlainLoginData : loginOk(r, data)
  \/ \E r \in Ids : Respond401(r)
  \/ \E r \in Ids : RespondOther(r)
  \/ \E c \in refreshCalls, data \in PlainRefreshData : RefreshSuccess(c, data)
  \/ \E c \in refreshCalls : RefreshFailure(c)
  \/ Logout
  \/ PageLoad
  \/ \E orgId \in OrgIds : switchOrg(orgId)
  \/ \E org \in OrgIds : handleSelectOrg(org)

InitOrg == InitWith(PlainLoginData, OrgIds)

SpecOrg == InitOrg /\ [][NextOrg]_vars

\* the organization page in use by a user who stays logged in
NextOrgPage ==
  \/ IssueRequest
  \/ \E r \in Ids : RespondOk(r)
  \/ \E r \in Ids : RespondOther(r)
  \/ \E orgId \in OrgIds : switchOrg(orgId)
  \/ \E org \in OrgIds : handleSelectOrg(org)
  \/ \E org \in OrgIds : handleDeleteOrg(org)
  \/ \E r \in Ids : deleteOrgOk(r)
  \/ PageLoad

SpecOrgPage == InitOrg /\ [][NextOrgPage]_vars

\* an account with a single organization, whose user stays on the page
NextSingleOrg ==
  \/ IssueRequest
  \/ \E r \in Ids : RespondOk(r)
  \/ \E r \in Ids : Respond401(r)
  \/ \E r \in Ids : RespondOther(r)
  \/ \E c \in refreshCalls, data \in PlainRefreshData : RefreshSuccess(c, data)
  \/ \E org \in OrgIds : handleSelectOrg(org)
  \/ \E org \in OrgIds : handleDeleteOrg(org)
  \/ \E r \in Ids : deleteOrgOk(r)

InitSingleOrg == InitFor(PlainLoginData, {<<"A">>}, {<<"A">>})

SpecSingleOrg == InitSingleOrg /\ [][NextSingleOrg]_vars

\* the member page in use
NextMembers ==
  \/ \E userId \in UserIds : removeMember(userId)
  \/ \E r \in Ids : removeMemberOk(r)
  \/ \E r \in Ids : Respond401(r)
  \/ \E r \in Ids : RespondOther(r)
  \/ \E c \in refreshCalls, data \in PlainRefreshData : RefreshSuccess(c, data)
  \/ \E c \in refreshCalls : RefreshFailure(c)
  \/ PageLoad

SpecMembers == InitPlain /\ [][NextMembers]_vars

\* ================================================================ claims
\* requests marked _retry by the step
markedByStep == {r \in Ids : requests'[r]._retry /\ ~requests[r]._retry}

\* refresh calls started by the step
startedByStep == Len(refreshLog') - Len(refreshLog)

\* C1: at most one call to the refresh endpoint is in flight in every
\* reachable state; a step taken while isRefreshing is true starts no refresh
\* call, and a request such a step marks for retry is appended to the queue.
C1_SingleRefreshInFlight ==
  /\ [](Cardinality(refreshCalls) <= 1)
  /\ [][isRefreshing =>
          /\ startedByStep = 0
          /\ refreshCalls' \subseteq refreshCalls
          /\ \A r \in markedByStep : failedQueue' = Append(failedQueue, r)]_vars

\* C1 witness: a refresh call is in flight and a 401 handled meanwhile is queued
C1_Witness ==
  /\ isRefreshing
  /\ Cardinality(refreshCalls) = 1
  /\ failedQueue # <<>>
  /\ requests[failedQueue[1]].pc = "queued"

\* the refresh calls a request r has started
startedBy(r) == {k \in 1..Len(refreshLog) : refreshLog[k].trigger = r}

\* the refresh calls in flight when the 401 of r was handled
coveredBy(r) == {k \in 1..Len(refreshLog) : refreshLog[k].startedAfter = requests[r].window}

sentByStep == IF wire' = wire THEN <<>> ELSE wire'

\* times request r was put on the wire
sends(r) == requests[r].attempts

\* C3: every request is put on the wire at most twice, the second time only
\* when marked _retry; a request waiting for a refresh is already marked; and
\* a failed response of a marked request settles its promise without queueing
\* it or starting a refresh call, whether or not a refresh is in flight.
C3_RetriedAtMostOnce ==
  /\ [](\A r \in Ids :
          /\ sends(r) <= 2
          /\ sends(r) = 2 => requests[r]._retry
          /\ requests[r].pc \in {"queued", "refreshing"} => requests[r]._retry)
  /\ [][\A i \in 1..Len(sentByStep) :
          /\ requests'[sentByStep[i].req].attempts = sends(sentByStep[i].req) + 1
          /\ sentByStep[i].attempt = sends(sentByStep[i].req) + 1]_vars
  /\ [][\A r \in Ids :
          (requests[r]._retry /\ requests[r].pc = "wire" /\ requests'[r].pc # "wire")
             => \/ requests'[r].pc = "aborted"
                \/ /\ requests'[r].outcome = rejected(responseError(r, 2))
                   /\ failedQueue' = failedQueue
                   /\ startedByStep = 0
                \/ /\ requests'[r].outcome = fulfilled
                   /\ UNCHANGED <<failedQueue, refreshLog>>]_vars

\* C3 witness: the replay of a request failed and was rejected to its caller
\* while another refresh call was in flight
C3_Witness ==
  \E r \in Ids :
     /\ requests[r].outcome = rejected(responseError(r, 2))
     /\ isRefreshing

\* the refresh calls the step settles with the given state
settledByStep(state) ==
  {k \in 1..Len(refreshLog) : refreshLog[k].state = "inflight" /\ refreshLog'[k].state = state}

\* replays of the requests queued behind the same refresh call
queuedReplay(i) ==
  wire[i].attempt = 2 /\ requests[wire[i].req].via = "queued"

sameRelease(i, j) ==
  /\ queuedReplay(i) /\ queuedReplay(j)
  /\ requests[wire[i].req].window = requests[wire[j].req].window

\* C4 as claimed: the requests queued during one refresh are replayed in the
\* order their callers submitted them (request ids count submissions).
C4_ReplayInSubmissionOrder ==
  \A i, j \in 1..Len(wire) : (i < j /\ sameRelease(i, j)) => wire[i].req < wire[j].req

\* C4 amended: when a refresh succeeds, every request queued during it is
\* replayed exactly once, in the order in which the requests were queued (the
\* order their 401 responses were handled), before the replay of the request
\* that started the refresh.
C4_ReplayInQueueOrder ==
  [][\A k \in settledByStep("success") :
        /\ Len(sentByStep) = Len(failedQueue) + 1
        /\ \A i \in 1..Len(failedQueue) :
              /\ sentByStep[i].req = failedQueue[i]
              /\ sentByStep[i].attempt = 2
              /\ sends(failedQueue[i]) = 1
              /\ requests'[failedQueue[i]].pc = "wire"
        /\ sentByStep[Len(sentByStep)].req = refreshLog[k].trigger]_vars

\* C4 witness: two requests queued in the reverse of their submission order
\* have been replayed after a successful refresh
C4_Witness ==
  \E i, j \in 1..Len(wire) :
     /\ i < j /\ sameRelease(i, j) /\ wire[i].req > wire[j].req
     /\ \E k \in coveredBy(wire[i].req) : refreshLog[k].state = "success"

\* C5: when the refresh call succeeds with access token T2, the stored
\* access_token becomes T2, the trigger and every queued request are replayed,
\* each with its own config, and every replay carries Authorization: Bearer T2.
C5_ReplaysCarryNewToken ==
  [][\A k \in settledByStep("success") :
        refreshLog'[k].token # None =>
          LET T2 == refreshLog'[k].token[1]
          IN  /\ getItem(localStorage', "access_token") = Some(T2)
              /\ {sentByStep[i].req : i \in 1..Len(sentByStep)} =
                    {failedQueue[i] : i \in 1..Len(failedQueue)} \cup {refreshLog[k].trigger}
              /\ \A i \in 1..Len(sentByStep) :
                    /\ sentByStep[i].headers.Authorization = Some(<<"Bearer ">> \o T2)
                    /\ requests'[sentByStep[i].req].pc = "wire"]_vars

\* C6: when the refresh call fails, every queued continuation and the promise
\* of the trigger are rejected with the refresh error, both tokens are removed
\* from storage, the browser is navigated to "/", nothing is put on the wire,
\* and the coordinator is idle with an empty queue.
C6_RefreshFailureTeardown ==
  [][\A k \in settledByStep("failure") :
        /\ \A i \in 1..Len(failedQueue) :
              requests'[failedQueue[i]] =
                 settle(requests[failedQueue[i]], rejected(refreshError(k)))
        /\ requests'[refreshLog[k].trigger].outcome = rejected(refreshError(k))
        /\ getItem(localStorage', "access_token") = None
        /\ getItem(localStorage', "refresh_token") = None
        /\ nav' = "/"
        /\ wire' = wire
        /\ ~isRefreshing'
        /\ failedQueue' = <<>>]_vars

\* C6 witness: a refresh call has failed behind which a request was queued,
\* and that request is rejected with the refresh error
C6_Witness ==
  \E k \in 1..Len(refreshLog) : \E r \in Ids \ {refreshLog[k].trigger} :
     /\ refreshLog[k].state = "failure"
     /\ requests[r].outcome = rejected(refreshError(k))
     /\ requests[refreshLog[k].trigger].outcome = rejected(refreshError(k))
     /\ getItem(localStorage, "refresh_token") = None
     /\ nav = "/"

\* C7: in every reachable state access_token and refresh_token are both
\* stored or both absent.
C7_TokensTogether ==
  (getItem(localStorage, "access_token") = None)
     <=> (getItem(localStorage, "refresh_token") = None)

\* the stored forms of the sentinel: undefined, and "undefined" in quotes
storedSentinel == {Some(undefinedWord), Some(<<Q>> \o undefinedWord \o <<Q>>)}

\* C8: while the stored access_token is the string undefined, with or without
\* surrounding quotes, nothing the client puts on the wire carries an
\* Authorization header.
C8_SentinelNeverSent ==
  [][getItem(localStorage', "access_token") \in storedSentinel =>
        \A i \in 1..Len(sentByStep) : sentByStep[i].headers.Authorization = None]_vars

\* C9: when the stored access_token is what login stored for the token T
\* returned by the login endpoint (T not the word undefined), a request
\* leaving the client for the first time carries Authorization: Bearer T.
C9_LoginTokenRoundTrip ==
  [][\A d \in LoginData :
        ( /\ d.access_token # None
          /\ d.access_token # Some(undefinedWord)
          /\ getItem(localStorage, "access_token") = JSONstringify(d.access_token)
          /\ Len(sentByStep) = 1
          /\ sentByStep[1].attempt = 1 )
        => sentByStep[1].headers.Authorization = Some(Bearer(d.access_token))]_vars

\* C10: the refresh_token in the body of every refresh call is a refresh
\* token string as the login endpoint returned it, without the quoting added
\* when it was stored.
C10_RefreshBodyUnquoted ==
  \A c \in refreshCalls : \E d \in LoginData : c.body.refresh_token = d.refresh_token

\* C11: while an active organization id is stored, every request leaving
\* the client carries X-Org-ID equal to it (so the first request after a
\* switch carries the new id), and the switch is not retroactive: the replay
\* of a request carries the X-Org-ID the request was first sent with.
C11_OrgHeaderNotRetroactive ==
  [][\A i \in 1..Len(sentByStep) :
        /\ getItem(localStorage', "active_org_id") # None =>
              sentByStep[i].headers["X-Org-ID"] = getItem(localStorage', "active_org_id")
        /\ (sentByStep[i].attempt = 2
              /\ requests[sentByStep[i].req].headers["X-Org-ID"] # None) =>
              sentByStep[i].headers["X-Org-ID"] =
                 requests[sentByStep[i].req].headers["X-Org-ID"]]_vars

\* C12: the stored active organization id changes only in a step of an
\* organization switch, selection or removal: login, refresh success, refresh
\* failure and logout leave it as it is.
C12_OrgIdIndependentOfCredentials ==
  [][getItem(localStorage', "active_org_id") # getItem(localStorage, "active_org_id") =>
        \/ \E o \in OrgIds : switchOrg(o) \/ handleSelectOrg(o)
        \/ \E r \in Ids : deleteOrgOk(r)]_vars

\* C13: a response with a status other than 401, or a transport error,
\* rejects the promise of its request with the error of that response; the
\* step marks and queues no request, puts nothing on the wire, starts no
\* refresh call and leaves storage, the isRefreshing flag, the queue, the
\* navigation and every other request as they are.
C13_OtherFailuresPropagate ==
  [][\A r \in Ids : RespondOther(r) =>
        /\ requests'[r].pc = "done"
        /\ requests'[r].outcome = rejected(responseError(r, sends(r)))
        /\ \A o \in Ids \ {r} : requests'[o] = requests[o]
        /\ markedByStep = {}
        /\ startedByStep = 0
        /\ UNCHANGED <<localStorage, isRefreshing, failedQueue, refreshCalls, wire, nav>>]_vars

\* C13 witness: a first response was rejected to its caller while a refresh
\* call was in flight with a request queued behind it
C13_Witness ==
  \E r \in Ids :
     /\ requests[r].outcome = rejected(responseError(r, 1))
     /\ isRefreshing
     /\ failedQueue # <<>>
     /\ \A i \in 1..Len(failedQueue) : failedQueue[i] # r

\* C14: a step starts a refresh call only for a 401 response of a request
\* that is not marked _retry while a refresh token is stored; a 401 handled
\* while no refresh token is stored rejects the promise of its request and
\* starts no refresh call, queues nothing, navigates nowhere and leaves
\* storage as it is.
C14_RefreshGuard ==
  [][/\ startedByStep > 0 =>
          \E r \in Ids : /\ Respond401(r)
                         /\ ~requests[r]._retry
                         /\ getItem(localStorage, "refresh_token") # None
                         /\ startedByStep = 1
                         /\ refreshLog'[Len(refreshLog')].trigger = r
     /\ \A r \in Ids : (Respond401(r) /\ getItem(localStorage, "refresh_token") = None) =>
          /\ requests'[r].outcome = rejected(responseError(r, sends(r)))
          /\ startedByStep = 0
          /\ UNCHANGED <<localStorage, isRefreshing, failedQueue, refreshCalls, nav>>]_vars

\* C14 witness: with nothing in storage a first response was rejected and no
\* refresh call was ever started
C14_Witness ==
  \E r \in Ids :
     /\ requests[r].outcome = rejected(responseError(r, 1))
     /\ getItem(localStorage, "refresh_token") = None
     /\ refreshLog = <<>>
     /\ nav = "none"

\* C15: the browser is sent to "/" only by the step in which a refresh call
\* fails, and that step removes both tokens; a 401 response of a request
\* already marked _retry rejects its promise, starts no refresh call and
\* leaves storage and the navigation as they are.
C15_TeardownOnlyOnRefreshFailure ==
  [][/\ (nav' = "/" /\ nav # "/") =>
          /\ settledByStep("failure") # {}
          /\ localStorage' = teardown(localStorage)
     /\ \A r \in Ids : (Respond401(r) /\ requests[r]._retry) =>
          /\ requests'[r].outcome = rejected(responseError(r, 2))
          /\ startedByStep = 0
          /\ UNCHANGED <<localStorage, nav, failedQueue>>]_vars

\* C15 witness: the replay of a request was rejected and both tokens are
\* still stored, with no navigation pending
C15_Witness ==
  \E r \in Ids :
     /\ requests[r].outcome = rejected(responseError(r, 2))
     /\ getItem(localStorage, "access_token") # None
     /\ getItem(localStorage, "refresh_token") # None
     /\ nav = "none"

\* the requests in the pending queue
inQueue == {failedQueue[i] : i \in 1..Len(failedQueue)}

\* the refresh calls the step settles, either way
settledEitherWay == settledByStep("success") \cup settledByStep("failure")

\* C16: the queue is non-empty only while isRefreshing is true and a refresh
\* call is in flight; the queue holds exactly the requests waiting as queued,
\* all of them queued during the refresh now in flight; and the step that
\* settles the refresh empties the queue, every queued request being replayed
\* or rejected by it.
C16_QueueOnlyWhileRefreshing ==
  /\ [](failedQueue # <<>> => (isRefreshing /\ Cardinality(refreshCalls) = 1))
  /\ [](\A r \in Ids : requests[r].pc = "queued" <=> r \in inQueue)
  /\ [](\A r \in inQueue : requests[r].window = settledCalls)
  /\ [][settledEitherWay # {} =>
          /\ failedQueue' = <<>>
          /\ \A r \in inQueue :
                \/ requests'[r].pc = "wire" /\ requests'[r].attempts = 2
                \/ requests'[r].outcome.state = "rejected"]_vars

\* C16 witness: a request that was queued has been replayed by the refresh
\* that settled, and the coordinator is idle with an empty queue
C16_Witness ==
  \E r \in Ids :
     /\ requests[r].via = "queued"
     /\ requests[r].pc = "wire"
     /\ requests[r].attempts = 2
     /\ ~isRefreshing
     /\ failedQueue = <<>>

\* C17: a queued request leaves the queue only in the step that settles the
\* refresh call (or when the page is unloaded); that step releases the whole
\* queue, and on success it replays the queued requests first queued first.
C17_ReleasedTogetherAfterSettle ==
  [][\A r \in Ids : (requests[r].pc = "queued" /\ requests'[r].pc # "queued") =>
        \/ requests'[r].pc = "aborted" /\ nav # "none" /\ nav' = "none"
        \/ /\ settledEitherWay # {}
           /\ \A o \in inQueue : requests'[o].pc # "queued"
           /\ settledByStep("success") # {} =>
                 /\ Len(sentByStep) > Len(failedQueue)
                 /\ \A i \in 1..Len(failedQueue) : sentByStep[i].req = failedQueue[i]
           /\ settledByStep("failure") # {} =>
                 \A o \in inQueue : requests'[o].outcome.state = "rejected"]_vars

\* C17 witness: two queued requests were released by the same step, ahead of
\* the request that started the refresh
C17_Witness ==
  /\ Len(wire) = 3
  /\ queuedReplay(1) /\ queuedReplay(2)
  /\ requests[wire[3].req].via = "trigger"
  /\ ~isRefreshing

\* the step settles a refresh call
refreshSettles == \E c \in refreshCalls : c \notin refreshCalls'

\* the step is the unload of the page
pageUnloads == nav # "none" /\ nav' = "none"

\* C18: when every refresh call settles, a coordinator that is refreshing
\* returns to idle and every queued request leaves the queue; and as long as
\* the refresh call has not settled (and the page is not unloaded) the
\* coordinator stays refreshing and no queued request is replayed or rejected.
C18_SettlesOrStalls ==
  /\ isRefreshing ~> ~isRefreshing
  /\ \A r \in Ids : (requests[r].pc = "queued") ~> (requests[r].pc # "queued")
  /\ [][(isRefreshing /\ ~refreshSettles /\ ~pageUnloads) =>
          /\ isRefreshing'
          /\ refreshCalls' = refreshCalls
          /\ \A r \in inQueue : requests'[r] = requests[r]]_vars

\* C18 witness: a request queued behind a refresh call that succeeded was
\* released and has been answered
C18_Witness ==
  \E r \in Ids : \E k \in 1..Len(refreshLog) :
     /\ requests[r].pc = "done"
     /\ requests[r].outcome = fulfilled
     /\ refreshLog[k].state = "success"
     /\ ~isRefreshing
     /\ Len(wire) >= 2 /\ wire[1].req = r /\ wire[1].attempt = 2

\* the stored forms of the refresh tokens the login endpoint issues
loginStoredRefresh == {storeLogin(emptyStorage, d).refresh_token : d \in PlainLoginData}

\* C19: the step in which a refresh call succeeds changes no key of storage
\* other than access_token, and every refresh call carries the refresh token
\* as login stored it.
C19_RefreshReplacesAccessOnly ==
  /\ [][settledByStep("success") # {} =>
          /\ getItem(localStorage', "refresh_token") = getItem(localStorage, "refresh_token")
          /\ getItem(localStorage', "active_org_id") = getItem(localStorage, "active_org_id")
          /\ getItem(localStorage', "access_token") # None]_vars
  /\ [](\A c \in refreshCalls : c.body.refresh_token \in loginStoredRefresh)

\* C19 witness: after a refresh that succeeded a second refresh call is in
\* flight with the refresh token of the login, an organization being active
C19_Witness ==
  /\ Len(refreshLog) = 2
  /\ refreshLog[1].state = "success"
  /\ refreshLog[2].state = "inflight"
  /\ getItem(localStorage, "active_org_id") # None
  /\ getItem(localStorage, "refresh_token") \in loginStoredRefresh
  /\ \E c \in refreshCalls : c.body.refresh_token = getItem(localStorage, "refresh_token")

\* C20: after Logout (its reload pending, no login since) nothing the client
\* puts on the wire carries an Authorization header and no refresh call is
\* started.
C20_NoCredentialsAfterLogout ==
  [][(nav = "reload" /\ getItem(localStorage, "refresh_token") = None) =>
        /\ \A i \in 1..Len(sentByStep) : sentByStep[i].headers.Authorization = None
        /\ startedByStep = 0]_vars

\* C21: the step in which a delete of organization X succeeds leaves in the
\* displayed list exactly the organizations of the list other than X, in
\* their order.
C21_DeleteRemovesOnlyTarget ==
  [][\A r \in Ids : deleteOrgOk(r) =>
        organizations' = SelectSeq(organizations, LAMBDA o : o # requests[r].org[1])]_vars

\* C27: when no active organization id is stored as a request leaves the
\* client, first attempt or replay, the request carries no X-Org-ID header.
C27_NoOrgHeaderWithoutOrg ==
  [][getItem(localStorage', "active_org_id") = None =>
        \A i \in 1..Len(sentByStep) : sentByStep[i].headers["X-Org-ID"] = None]_vars

\* C28: the active_org_id in storage never names an organization that was
\* deleted: a stored id is the id of an organization the server still has.
C28_ActiveOrgNeverDeleted ==
  getItem(localStorage, "active_org_id") # None =>
     getItem(localStorage, "active_org_id")[1] \in serverOrgs

\* the members of a list other than those of user U
without(list, U) == SelectSeq(list, LAMBDA m : m.user_id # U)

\* C22: the step in which the delete of the member with user id U succeeds
\* leaves in the displayed list exactly the members whose user_id is not U, in
\* their order; the step in which a delete request is rejected leaves the
\* list as it is.
C22_RemoveMemberById ==
  /\ [][\A r \in Ids : removeMemberOk(r) =>
          members' = without(members, requests[r].userId[1])]_vars
  /\ [][\A r \in Ids :
          (requests[r].kind = "removeMember" /\ requests'[r].outcome.state = "rejected")
             => members' = members]_vars

\* C22 witness: one member was removed and the others are still displayed,
\* and a delete request that failed left the list alone
C22_Witness ==
  /\ Len(members) = Len(AllMembers) - 1
  /\ \E r \in Ids : requests[r].outcome = fulfilled
  /\ \E r \in Ids : requests[r].outcome.state = "rejected"
  /\ nav = "none"

\* C23: whatever the client puts on the wire, first attempt or replay,
\* carries an Authorization header only if the access token stored at that
\* moment is usable, and the header is then Bearer of the stored token as the
\* interceptor reads it.
C23_HeaderMatchesStoredToken ==
  [][\A i \in 1..Len(sentByStep) :
        sentByStep[i].headers.Authorization # None =>
           /\ usable(storedToken(localStorage'))
           /\ sentByStep[i].headers.Authorization =
                 Some(<<"Bearer ">> \o storedToken(localStorage')[1])]_vars

\* !!localStorage.getItem("access_token"): ProtectedRoute renders its children
isAuthenticated(ls) ==
  getItem(ls, "access_token") # None /\ getItem(ls, "access_token")[1] # <<>>

\* C26: the step in which the promise of a login request is rejected leaves
\* storage and the navigation as they are and starts no refresh call, and no
\* refresh call is ever in flight on behalf of a login request.
C26_FailedLoginLeavesStore ==
  /\ [](\A c \in refreshCalls : requests[c.trigger].kind # "login")
  /\ [][\A r \in Ids :
          (requests[r].kind = "login" /\ requests'[r].outcome.state = "rejected") =>
             /\ localStorage' = localStorage
             /\ nav' = nav
             /\ startedByStep = 0]_vars

\* C29: in every reachable state ProtectedRoute renders the protected
\* content exactly when the request interceptor would attach an
\* Authorization header for the stored access_token.
C29_RouteAgreesWithInterceptor ==
  isAuthenticated(localStorage) <=> usable(storedToken(localStorage))

\* C24: a refresh call carries none of the headers the client attaches and
\* stands for no request of the client; the step in which it fails starts no
\* refresh call, puts nothing on the wire, queues nothing and takes the
\* refresh-failure exit; and a refresh call that has settled is not settled
\* or sent again.
C24_RefreshOutsideClient ==
  /\ [](\A c \in refreshCalls :
          /\ c.headers = NoHeaders
          /\ requests[c.trigger].pc = "refreshing"
          /\ \A i \in 1..Len(failedQueue) : failedQueue[i] # c.trigger)
  /\ [][settledByStep("failure") # {} =>
          /\ startedByStep = 0
          /\ refreshCalls' = {}
          /\ sentByStep = <<>>
          /\ failedQueue' = <<>>
          /\ ~isRefreshing'
          /\ nav' = "/"]_vars
  /\ [][\A k \in 1..Len(refreshLog) :
          refreshLog[k].state \in {"success", "failure"} => refreshLog'[k] = refreshLog[k]]_vars

\* C24 witness: the only refresh call made has failed and the browser is on
\* its way to "/", with no refresh call in flight
C24_Witness ==
  /\ Len(refreshLog) = 1
  /\ refreshLog[1].state = "failure"
  /\ refreshCalls = {}
  /\ nav = "/"
  /\ getItem(localStorage, "access_token") = None

\* no pending call was abandoned by an unload of the page
noneAborted == \A r \in Ids : requests[r].pc # "aborted"

\* every issued request is settled and the coordinator is idle
quiescent ==
  /\ ~isRefreshing
  /\ failedQueue = <<>>
  /\ refreshCalls = {}
  /\ \A r \in Ids : r < nextId =>
        requests[r].pc = "done" /\ requests[r].outcome.state \in {"fulfilled", "rejected"}

\* C25: the number of refresh calls made never exceeds the number of requests
\* issued; and in an execution in which every network call settles (none is
\* abandoned by an unload) eventually every issued request is resolved or
\* rejected and the coordinator is idle with an empty queue, for good.
C25_RefreshActivityTerminates ==
  /\ [](Len(refreshLog) <= nextId - 1)
  /\ ([]noneAborted) => <>[]quiescent

\* C25 witness: every request issued has started a refresh call of its own
\* and all is settled
C25_Witness ==
  /\ nextId = MaxReq + 1
  /\ Len(refreshLog) = MaxReq
  /\ quiescent

====
